---- MODULE Spec2Model ----
(***************************************************************************)
(* Model of backend/app.py: the analysis pipeline behind POST /analyze and *)
(* POST /analyze_repo (language detection with regex fallback, static      *)
(* analysis with temp files, sandboxed execution with fallback, suggestion *)
(* synthesis with a deterministic fallback report).                        *)
(*                                                                         *)
(* Text is modelled as the sequence text.split("\n") of the pieces between *)
(* its line breaks, so a text that ends with a line break has the empty    *)
(* piece "" as its last element; the empty text is << >>.  A code blob is  *)
(* a sequence of lines drawn from the vocabulary Lines; re.search(p, code) *)
(* and "s in code" are modelled by the set of vocabulary lines the pattern *)
(* matches (the vocabulary is chosen so that no pattern matches across a   *)
(* line break).  The glyph prefixes of the fallback messages are dropped.  *)
(***************************************************************************)
EXTENDS Naturals, Sequences, FiniteSets, TLC

VARIABLES
    pc,               \* position of the handler / function under analysis
    endpoint,         \* "none" | "analyze" | "analyze_repo"
    repo_url,         \* the repository reference, a sequence of URL parts
    env,              \* what the external collaborators answer to this request
    code,             \* the code blob of the current submission
    language,         \* resolved language of the current submission
    issues,           \* FindingSet of the current submission (a dict)
    runtime_logs,     \* outcome of run_in_docker for the current submission
    suggestions,      \* outcome of ai_fix_agent for the current submission
    status,           \* HTTP status of the response (0: none yet)
    detail,           \* detail text of an error response
    results,          \* analyze_repo: mapping relative path -> entry
    files,            \* analyze_repo: files of the clone not yet walked
    workspace,        \* analyze_repo: the TemporaryDirectory of the clone exists
    tmpfiles,         \* temp files of static analysis that exist on disk
    docker_available, \* the process-wide capability flag
    containers,       \* number of containers started by the current call
    calls,            \* pipeline steps invoked for the current submission
    fault,            \* the exception that ended the call or request ("none" if none)
    file_path,        \* analyze_repo: relative path of the file being processed
    walk_log          \* analyze_repo: what became of each walked file

vars == <<pc, endpoint, repo_url, env, code, language, issues, runtime_logs,
          suggestions, status, detail, results, files, workspace, tmpfiles,
          docker_available, containers, calls, fault, file_path, walk_log>>

----------------------------------------------------------------------------
(* Bounds *)

\* longest code blob (in lines) given to the language detector and the executor
MaxLines == 2
\* longest code blob (in lines) given to static analysis
MaxToolLines == 1

----------------------------------------------------------------------------
(* Code blobs *)

Lines ==
    { "def f(x):", "import os", "print(x)", "y = 1", "os.system(c)", "f = open(p)",
      "import java.util.List;", "public class Main {}", "System.out.println(s);",
      "Foo a = new Foo(); a = null;", "s.equals(null);",
      "std::cout << x;", "#include <iostream>", "#include <stdio.h>", "printf(s);",
      "p = malloc(n);", "free(p);", "int x;", "for(;;) {}", "strcpy(d, s);",
      "q = NULL; *q = 1;", "int a[2];" }

BlobsOver(S, n) == UNION { [1..k -> S] : k \in 0..n }

\* re.search(pattern, code) / "s in code": some line of the blob is matched
Search(matched, text) == \E i \in 1..Len(text) : text[i] \in matched

NoException == "none"

----------------------------------------------------------------------------
(* Language detection *)

\* python markers
ReDef         == { "def f(x):" }
ReImport      == { "import os", "import java.util.List;" }
ReFromImport  == { }
RePrint       == { "print(x)" }
\* java markers
RePublicClass == { "public class Main {}" }
ReMain        == { }
RePrintln     == { "System.out.println(s);" }
ReImportJava  == { "import java.util.List;" }
\* C++ markers
ReCppInclude  == { "#include <iostream>" }
ReStd         == { "std::cout << x;" }
ReCout        == { "std::cout << x;" }
ReNamespace   == { }
ReClassBrace  == { "public class Main {}" }
\* C markers
ReCInclude    == { "#include <stdio.h>" }
RePrintf      == { "printf(s);" }
ReMallocCall  == { "p = malloc(n);" }
ReVoidFn      == { }

PythonMarkers(c) ==
    Search(ReDef, c) \/ Search(ReImport, c) \/ Search(ReFromImport, c) \/ Search(RePrint, c)

JavaMarkers(c) ==
    Search(RePublicClass, c) \/ Search(ReMain, c) \/ Search(RePrintln, c)
        \/ Search(ReImportJava, c)

CppMarkers(c) ==
    Search(ReCppInclude, c) \/ Search(ReStd, c) \/ Search(ReCout, c)
        \/ Search(ReNamespace, c) \/ Search(ReClassBrace, c)

CMarkers(c) ==
    Search(ReCInclude, c) \/ Search(RePrintf, c) \/ Search(ReMallocCall, c)
        \/ Search(ReVoidFn, c)

\* a plausible slip: the C++ group tried before the java group
detect_language_with_regex_reordered(c) ==
    IF PythonMarkers(c) THEN "python"
    ELSE IF CppMarkers(c) THEN "cpp"
    ELSE IF JavaMarkers(c) THEN "java"
    ELSE IF CMarkers(c) THEN "c"
    ELSE "python"

detect_language_with_regex(c) ==
    IF PythonMarkers(c) THEN "python"
    ELSE IF JavaMarkers(c) THEN "java"
    ELSE IF CppMarkers(c) THEN "cpp"
    ELSE IF CMarkers(c) THEN "c"
    ELSE "python"

SupportedLanguages == { "python", "java", "c", "cpp" }

\* what client.text_generation may do: raise, or answer some text
LLMDown == [ok |-> FALSE, text |-> <<>>]
LLMAnswers == { "python", " Java", "C", "cpp", "unknown", "Rust" }
LLMReplies == { LLMDown } \cup { [ok |-> TRUE, text |-> <<a>>] : a \in LLMAnswers }

\* response.strip().lower() on the answers above
StripLower(s) ==
    CASE s = " Java" -> "java"
      [] s = "C"     -> "c"
      [] s = "Rust"  -> "rust"
      [] OTHER       -> s

detect_language_with_llm(c, reply) ==
    IF reply.ok
    THEN LET lang == StripLower(reply.text[1])
         IN  IF lang \notin SupportedLanguages THEN "unknown" ELSE lang
    ELSE detect_language_with_regex(c)

----------------------------------------------------------------------------
(* C/C++ conceptual scan (run_c_static_analysis, first layer) *)

ReNullArrow   == { }
ReNullStar    == { "q = NULL; *q = 1;" }
InMalloc      == { "p = malloc(n);" }         \* "malloc" in code
InFree        == { "free(p);" }               \* "free" in code
ReUninit      == { "int x;" }
ReStrcpy      == { "strcpy(d, s);" }
ReStrn        == { }
ReForEver     == { "for(;;) {}" }
ReFreeArrow   == { }
ReFreeStar    == { }
ReArrayRef    == { "int a[2];" }

\* group 2 of the uninitialized-variable pattern on a matched line
UninitName(line) == CASE line = "int x;" -> "x" [] OTHER -> "?"

\* groups (name, digits) of the array pattern on a matched line
ArrayName(line) == CASE line = "int a[2];" -> "a" [] OTHER -> "?"
ArrayDigits(line) == CASE line = "int a[2];" -> 2 [] OTHER -> 0

RECURSIVE JoinComma(_)
JoinComma(names) ==
    IF Len(names) = 0 THEN ""
    ELSE IF Len(names) = 1 THEN names[1]
    ELSE names[1] \o ", " \o JoinComma(Tail(names))

InUninit(line) == line \in ReUninit
InArrayRef(line) == line \in ReArrayRef

\* re.findall(...) in order of occurrence
UninitVars(c) ==
    LET hit == SelectSeq(c, InUninit)
    IN  [i \in 1..Len(hit) |-> UninitName(hit[i])]

ArrayDecls(c) == SelectSeq(c, InArrayRef)

\* the messages of the array rule: for every declaration, every index of the
\* same name that is >= the declared size
RECURSIVE ArrayMessages(_, _, _, _)
ArrayMessages(decls, refs, d, r) ==
    IF d > Len(decls) THEN <<>>
    ELSE IF r > Len(refs) THEN ArrayMessages(decls, refs, d + 1, 1)
    ELSE LET hit == ArrayName(refs[r]) = ArrayName(decls[d])
                      /\ ArrayDigits(refs[r]) >= ArrayDigits(decls[d])
             msg == "Potential array out of bounds: " \o ArrayName(decls[d]) \o "["
                      \o ToString(ArrayDigits(refs[r])) \o "] exceeds size "
                      \o ToString(ArrayDigits(decls[d]))
         IN  (IF hit THEN <<msg>> ELSE <<>>) \o ArrayMessages(decls, refs, d, r + 1)

NoConceptualIssues == <<"No conceptual issues detected">>
MemoryLeakWarning == "Potential memory leak: malloc used without corresponding free"

\* a plausible slip: the leak rule chained with elif behind the null-pointer rule
LeakRule_elif(c) ==
    IF Search(ReNullArrow, c) \/ Search(ReNullStar, c) THEN <<>>
    ELSE IF Search(InMalloc, c) /\ ~Search(InFree, c) THEN <<MemoryLeakWarning>>
    ELSE <<>>

LeakRule(c) ==
    IF Search(InMalloc, c) /\ ~Search(InFree, c) THEN <<MemoryLeakWarning>> ELSE <<>>

ConceptualErrorList(c) ==
    (IF Search(ReNullArrow, c) \/ Search(ReNullStar, c)
        THEN <<"Potential NULL pointer dereference detected">> ELSE <<>>)
    \o LeakRule(c)
    \o (IF Len(UninitVars(c)) > 0
        THEN <<"Potentially uninitialized variables: " \o JoinComma(UninitVars(c))>>
        ELSE <<>>)
    \o (IF Search(ReStrcpy, c) /\ ~Search(ReStrn, c)
        THEN <<"Potential buffer overflow risk: using strcpy/strcat without bounds checking">>
        ELSE <<>>)
    \o (IF Search(ReForEver, c)
        THEN <<"Potential infinite loop: missing loop condition">> ELSE <<>>)
    \o (IF Search(ReFreeArrow, c) \/ Search(ReFreeStar, c)
        THEN <<"Potential use of dangling pointer after free">> ELSE <<>>)
    \o ArrayMessages(ArrayDecls(c), ArrayDecls(c), 1, 1)

ConceptualErrors(c) ==
    IF Len(ConceptualErrorList(c)) > 0 THEN ConceptualErrorList(c) ELSE NoConceptualIssues

----------------------------------------------------------------------------
(* External tool layers of static analysis.  A layer yields its FindingSet  *)
(* entry and the temp files it leaves on disk.                              *)

\* what running an external tool may do
ToolRuns == { "missing", "clean", "diag", "raises" }
ValgrindRuns == { "missing", "no_compiler", "compile_failed", "clean", "diag",
                  "timeout" }

Suffix(is_cpp) == IF is_cpp THEN ".cpp" ELSE ".c"

cppcheck_layer(run, is_cpp) ==
    LET src == "cppcheck" \o Suffix(is_cpp)
    IN  CASE run = "missing" ->
               [entry |-> <<"Tool not available (cppcheck is not installed or not in PATH)">>, left |-> {}]
          [] run = "raises" ->      \* except: os.unlink is skipped
               [entry |-> <<"Error running cppcheck: decode error">>, left |-> {src}]
          [] run = "clean" ->
               [entry |-> <<"No issues detected by cppcheck">>, left |-> {}]
          [] OTHER ->
               [entry |-> <<"(error) cppcheck diagnostic">>, left |-> {}]

clang_layer(run, is_cpp) ==
    LET src == "clang" \o Suffix(is_cpp)
    IN  CASE run = "missing" ->
               [entry |-> <<"Tool not available (clang/clang++ is not installed or not in PATH)">>, left |-> {}]
          [] run = "raises" ->      \* except: os.unlink is skipped
               [entry |-> <<"Error running clang static analyzer: decode error">>, left |-> {src}]
          [] run = "clean" ->
               [entry |-> <<"No issues detected by clang static analyzer">>, left |-> {}]
          [] OTHER ->
               [entry |-> <<"warning: clang diagnostic">>, left |-> {}]

\* the memory checker's timeout (seconds)
ValgrindTimeout == 5

valgrind_layer(run, nt, is_cpp) ==
    LET src == "valgrind" \o Suffix(is_cpp)
        bin == src \o ".out"
    IN  IF run = "missing" \/ nt
        THEN [entry |-> IF nt
                        THEN <<"Tool not available (valgrind does not work on Windows)">>
                        ELSE <<"Tool not available (valgrind is not installed or not in PATH)">>, left |-> {}]
        ELSE CASE run = "no_compiler" ->     \* subprocess.run(gcc) raises
                    [entry |-> <<"Error running valgrind: No such file or directory: gcc">>, left |-> {src}]
               [] run = "compile_failed" ->
                    [entry |-> <<"Compilation failed: error: expected ';'">>, left |-> {}]
               [] run = "timeout" ->          \* TimeoutExpired: both unlinks are skipped
                    [entry |-> <<"Error running valgrind: timed out after "
                                  \o ToString(ValgrindTimeout) \o " seconds">>, left |-> {src, bin}]
               [] run = "clean" ->
                    [entry |-> <<"No memory issues detected">>, left |-> {}]
               [] OTHER ->
                    [entry |-> <<"definitely lost: 4 bytes in 1 blocks">>, left |-> {}]

CToolEnvs == [cppcheck : ToolRuns, clang : ToolRuns, valgrind : ValgrindRuns,
              nt : BOOLEAN]

\* the whole of run_c_static_analysis: the FindingSet and the files left behind
run_c_static_analysis(c, is_cpp, t) ==
    [issues |-> [k \in {"conceptual_errors", "cppcheck", "clang_analyze", "memory_analysis"} |->
                    CASE k = "conceptual_errors" -> ConceptualErrors(c)
                      [] k = "cppcheck" -> cppcheck_layer(t.cppcheck, is_cpp).entry
                      [] k = "clang_analyze" -> clang_layer(t.clang, is_cpp).entry
                      [] OTHER -> valgrind_layer(t.valgrind, t.nt, is_cpp).entry],
     left |-> cppcheck_layer(t.cppcheck, is_cpp).left
                \cup clang_layer(t.clang, is_cpp).left
                \cup valgrind_layer(t.valgrind, t.nt, is_cpp).left]

\* subprocess.getoutput of a python tool: its output, or the shell's complaint
PyToolRuns == { "missing", "clean", "diag", "raises" }

PyToolEntry(tool, run) ==
    CASE run = "clean"   -> <<"No issues">>
      [] run = "missing" -> <<"/bin/sh: 1: " \o tool \o ": not found">>
      [] run = "raises"  -> <<"decode error">>
      [] OTHER           -> <<tool \o " diagnostic">>

PyToolEnvs == [flake8 : PyToolRuns, mypy : PyToolRuns]

run_static_analysis(c, t) ==
    [issues |-> [k \in {"flake8", "mypy"} |-> PyToolEntry(k, t[k])],
     left |-> {}]

EmptyIssues == [k \in {} |-> <<>>]

----------------------------------------------------------------------------
(* Execution: run_in_docker and run_code_fallback.  A call yields the       *)
(* exception it propagates ("none" if it returns), the value it returns and *)
(* the number of containers it started.                                     *)

PyValidLines ==
    { " ", "import os", "print(x)", "y = 1", "os.system(c)", "f = open(p)",
      "import java.util.List;", "System.out.println(s);", "s.equals(null);",
      "#include <iostream>", "#include <stdio.h>", "printf(s);", "p = malloc(n);",
      "free(p);", "strcpy(d, s);", "q = NULL; *q = 1;" }

\* ast.parse(code) succeeds
AstParses(c) == \A i \in 1..Len(c) : c[i] \in PyValidLines

InOpen        == { "f = open(p)" }                    \* "open(" in code
InClose       == { }                                  \* "close(" in code
InWithOpen    == { }                                  \* "with open" in code
InImportOs    == { "import os" }                      \* "import os" in code
InOsSystem    == { "os.system(c)" }                   \* "os.system" in code
InEqualsNull  == { "s.equals(null);" }                \* ".equals(null)" in code
InNew         == { "Foo a = new Foo(); a = null;" }   \* "new" in code
InAssignNull  == { "Foo a = new Foo(); a = null;" }   \* "= null" in code

Upper(lang) == CASE lang = "c" -> "C" [] lang = "cpp" -> "CPP" [] OTHER -> lang

Returned(v) == [raised |-> NoException, value |-> v, containers |-> 0]
Raised(e) == [raised |-> e, value |-> <<>>, containers |-> 0]

NotExecutedLabel(lang) ==
    CASE lang = "python" -> "Python code analysis (without execution):"
      [] lang = "java"   -> "Java code analysis (without execution):"
      [] OTHER           -> Upper(lang) \o " code analysis (without execution):"

\* every message is appended with its line break, so the text returned for a
\* supported language ends with one
run_code_fallback(c, lang) ==
    CASE lang = "python" ->
           Returned(<<NotExecutedLabel(lang)>>
             \o (IF AstParses(c) THEN <<"No syntax errors detected">>
                 ELSE <<"Syntax error: invalid syntax">>)
             \o (IF Search(InOpen, c) /\ ~Search(InClose, c) /\ ~Search(InWithOpen, c)
                 THEN <<"Warning: File opened but not explicitly closed">> ELSE <<>>)
             \o (IF Search(InImportOs, c) /\ Search(InOsSystem, c)
                 THEN <<"Warning: Potentially unsafe system command execution">>
                 ELSE <<>>)
             \o <<"">>)
      [] lang \in {"c", "cpp"} ->
           Returned(<<NotExecutedLabel(lang)>>
             \o (IF Search(ReNullArrow, c) \/ Search(ReNullStar, c)
                 THEN <<"Warning: Potential NULL pointer dereference detected">> ELSE <<>>)
             \o (IF Search(InMalloc, c) /\ ~Search(InFree, c)
                 THEN <<"Warning: " \o MemoryLeakWarning>> ELSE <<>>)
             \o (IF Len(UninitVars(c)) > 0
                 THEN <<"Warning: Potentially uninitialized variables: "
                          \o JoinComma(UninitVars(c))>>
                 ELSE <<>>)
             \o (IF Search(ReStrcpy, c) /\ ~Search(ReStrn, c)
                 THEN <<"Warning: Potential buffer overflow risk: using strcpy/strcat without bounds checking">>
                 ELSE <<>>)
             \o (IF Search(ReForEver, c)
                 THEN <<"Warning: Potential infinite loop: missing loop condition">>
                 ELSE <<>>)
             \o <<"">>)
      [] lang = "java" ->
           \* the third conjunct compiles a pattern whose \1 names no group:
           \* re.search raises re.error as soon as it is evaluated
           IF Search(InNew, c) /\ Search(InAssignNull, c)
           THEN Raised("re.error: invalid group reference 1")
           ELSE Returned(<<NotExecutedLabel(lang)>>
                  \o (IF Search(InEqualsNull, c)
                      THEN <<"Warning: Potential NullPointerException: calling .equals() on null">>
                      ELSE <<>>)
                  \o <<"">>)
      [] OTHER ->
           Returned(<<"Analysis for " \o lang \o " is not supported in fallback mode">>)

\* what the container engine may do during one call: the step that raises
\* (if any) and the logs of the container
DockerLogs == { <<>>, <<"Hello, World!", "">>,
                <<"Traceback (most recent call last):",
                  "NameError: name 'x' is not defined", "">>,
                <<"Tests ran successfully", "">> }
DockerRuns ==
    { [fail |-> f, logs |-> <<>>] : f \in {"client", "write", "run", "logs"} }
        \cup { [fail |-> "none", logs |-> l] : l \in DockerLogs }

run_in_docker(c, lang, flag, d) ==
    IF ~flag THEN run_code_fallback(c, lang)
    ELSE IF d.fail \in {"client", "write"} THEN run_code_fallback(c, lang)
    ELSE IF lang \notin SupportedLanguages THEN Returned(<<"Unsupported language">>)
    ELSE IF d.fail = "run"
         THEN Returned(<<"Runtime error: 404 Client Error: image not found">>)
    ELSE IF d.fail = "logs"
         THEN [Returned(<<"Runtime error: 409 Client Error: container removed">>)
                 EXCEPT !.containers = 1]
    ELSE [Returned(IF Len(d.logs) > 0 THEN d.logs ELSE <<"No output">>)
            EXCEPT !.containers = 1]

----------------------------------------------------------------------------
(* Suggestion synthesis: ai_fix_agent *)

InSuccessfully == { "Tests ran successfully" }        \* "successfully" in runtime

SynthReplies ==
    { LLMDown,
      [ok |-> TRUE, text |-> <<"1. CONCEPTUAL ISSUES: none found">>],
      [ok |-> TRUE, text |-> <<" 1. CONCEPTUAL ISSUES: none found ", "">>] }

\* one line of the replies above with its white space removed on the left
\* ("l"), on the right ("r") or on both sides ("lr")
StripLine(line, side) ==
    CASE line = " 1. CONCEPTUAL ISSUES: none found " ->
           (CASE side = "l" -> "1. CONCEPTUAL ISSUES: none found "
              [] side = "r" -> " 1. CONCEPTUAL ISSUES: none found"
              [] OTHER -> "1. CONCEPTUAL ISSUES: none found")
      [] line = " " -> ""
      [] OTHER -> line

\* response.strip(): white space goes from both ends of the text, line breaks
\* and blank lines included
RECURSIVE StripText(_)
StripText(t) ==
    IF Len(t) = 0 THEN <<>>
    ELSE IF StripLine(t[Len(t)], "lr") = "" THEN StripText(SubSeq(t, 1, Len(t) - 1))
    ELSE IF StripLine(t[1], "lr") = "" THEN StripText(Tail(t))
    ELSE IF Len(t) = 1 THEN <<StripLine(t[1], "lr")>>
    ELSE <<StripLine(t[1], "l")>> \o SubSeq(t, 2, Len(t) - 1)
           \o <<StripLine(t[Len(t)], "r")>>

GenericBullets ==
    << "SUGGESTED IMPROVEMENTS:", "- Fix any identified conceptual errors",
       "- Ensure proper error handling", "- Follow language best practices" >>

CBullets ==
    << "- Check for memory leaks", "- Validate pointer usage",
       "- Consider using safer string functions" >>

Has(d, k) == k \in DOMAIN d

RuntimeIncluded(runtime) ==
    Len(runtime) > 0 /\ runtime # <<"No output">> /\ ~Search(InSuccessfully, runtime)

fallback_response(found, runtime, lang) ==
    << "AUTOMATED CODE ANALYSIS (AI service unavailable)", "" >>
    \o (IF lang \in {"c", "cpp"} /\ Has(found, "conceptual_errors")
           /\ found["conceptual_errors"] # NoConceptualIssues
        THEN <<"CONCEPTUAL ISSUES:">> \o found["conceptual_errors"] \o <<"">>
        ELSE <<>>)
    \o (IF RuntimeIncluded(runtime)
        THEN <<"RUNTIME ISSUES:">> \o runtime \o <<"">>
        ELSE <<>>)
    \o (IF lang = "python" /\ Has(found, "flake8") /\ found["flake8"] # <<"No issues">>
        THEN <<"STATIC ANALYSIS (flake8):">> \o found["flake8"] \o <<"">>
        ELSE <<>>)
    \o (IF lang = "python" /\ Has(found, "mypy") /\ found["mypy"] # <<"No issues">>
        THEN <<"TYPE CHECKING (mypy):">> \o found["mypy"] \o <<"">>
        ELSE <<>>)
    \o GenericBullets
    \o (IF lang \in {"c", "cpp"} THEN CBullets ELSE <<>>)
    \o <<"">>                       \* the last bullet ends with a line break

ai_fix_agent(c, found, runtime, lang, reply) ==
    IF reply.ok THEN StripText(reply.text) ELSE fallback_response(found, runtime, lang)

----------------------------------------------------------------------------
(* Idle values of the state a specification does not use *)

NoRequest ==
    /\ endpoint = "none" /\ repo_url = <<>> /\ status = 0 /\ detail = <<>>
    /\ results = EmptyIssues /\ files = {} /\ workspace = FALSE
    /\ file_path = "" /\ walk_log = EmptyIssues

NoSubmission ==
    /\ language = "" /\ issues = EmptyIssues /\ runtime_logs = <<>>
    /\ suggestions = <<>> /\ calls = <<>> /\ containers = 0
    /\ fault = NoException /\ tmpfiles = {}

requestVars == <<endpoint, repo_url, status, detail, results, files, workspace,
                 file_path, walk_log>>

----------------------------------------------------------------------------
(* SpecDetect: detect_language_with_llm on every blob and backend reply *)

InitDetect ==
    /\ pc = "detect"
    /\ code \in BlobsOver(Lines, MaxLines)
    /\ env = <<>>
    /\ docker_available = FALSE
    /\ NoRequest /\ NoSubmission

DetectLanguage ==
    /\ pc = "detect"
    /\ \E reply \in LLMReplies :
         /\ env' = reply
         /\ language' = detect_language_with_llm(code, reply)
    /\ pc' = "detected"
    /\ calls' = Append(calls, "detect")
    /\ UNCHANGED <<code, issues, runtime_logs, suggestions, tmpfiles,
                   docker_available, containers, fault>>
    /\ UNCHANGED requestVars

NextDetect == DetectLanguage

SpecDetect == InitDetect /\ [][NextDetect]_vars

\* C9: when the backend raises, detect answers with the first marker group the
\* blob matches, tried in the order python, java, cpp, c; a blob matching no
\* group resolves to python; the answer is never unknown.
C9_FallbackPriority ==
    (pc = "detected" /\ ~env.ok) =>
        /\ PythonMarkers(code) => language = "python"
        /\ (~PythonMarkers(code) /\ JavaMarkers(code)) => language = "java"
        /\ (~PythonMarkers(code) /\ ~JavaMarkers(code) /\ CppMarkers(code))
              => language = "cpp"
        /\ (~PythonMarkers(code) /\ ~JavaMarkers(code) /\ ~CppMarkers(code)
              /\ CMarkers(code)) => language = "c"
        /\ (~PythonMarkers(code) /\ ~JavaMarkers(code) /\ ~CppMarkers(code)
              /\ ~CMarkers(code)) => language = "python"
        /\ language # "unknown"

\* the backend raised on a blob with java and C++ markers and no python marker:
\* the java group won
C9_Witness ==
    /\ pc = "detected" /\ ~env.ok
    /\ ~PythonMarkers(code) /\ JavaMarkers(code) /\ CppMarkers(code)
    /\ language = "java"

----------------------------------------------------------------------------
(* SpecExec: run_in_docker on every blob, supported language, value of the   *)
(* capability flag and behaviour of the container engine                     *)

NoDocker == [fail |-> "unused", logs |-> <<>>]

InitExec ==
    /\ pc = "execute"
    /\ code \in BlobsOver(Lines, MaxLines)
    /\ env = NoDocker
    /\ docker_available \in BOOLEAN
    /\ NoRequest
    /\ language \in SupportedLanguages
    /\ issues = EmptyIssues /\ runtime_logs = <<>> /\ suggestions = <<>>
    /\ calls = <<>> /\ containers = 0 /\ fault = NoException /\ tmpfiles = {}

\* run_in_docker with the flag false: line 285
ExecuteFlagFalse ==
    /\ pc = "execute"
    /\ ~docker_available
    /\ LET r == run_in_docker(code, language, docker_available, NoDocker)
       IN  /\ runtime_logs' = r.value
           /\ fault' = r.raised
           /\ containers' = containers + r.containers
           /\ pc' = IF r.raised = NoException THEN "executed" ELSE "execute_raised"
    /\ calls' = Append(calls, "execute")
    /\ UNCHANGED <<env, code, language, issues, suggestions, tmpfiles, docker_available>>
    /\ UNCHANGED requestVars

\* run_in_docker with the flag true: lines 288-336
ExecuteFlagTrue ==
    /\ pc = "execute"
    /\ docker_available
    /\ \E d \in DockerRuns :
         LET r == run_in_docker(code, language, docker_available, d)
         IN  /\ env' = d
             /\ runtime_logs' = r.value
             /\ fault' = r.raised
             /\ containers' = containers + r.containers
             /\ pc' = IF r.raised = NoException THEN "executed" ELSE "execute_raised"
    /\ calls' = Append(calls, "execute")
    /\ UNCHANGED <<code, language, issues, suggestions, tmpfiles, docker_available>>
    /\ UNCHANGED requestVars

NextExec == ExecuteFlagFalse \/ ExecuteFlagTrue

SpecExec == InitExec /\ [][NextExec]_vars

\* the payload is labelled as analysis without execution
LabelledNotExecuted(text, lang) == Len(text) > 0 /\ text[1] = NotExecutedLabel(lang)

\* C3: run_in_docker always returns a result and never propagates an exception.
C3_AlwaysAnOutcome == pc # "execute_raised"

\* C4: flag true and a step of container creation or execution raised: the
\* outcome returned is the fallback analysis, labelled as not executed.
C4_StepFailureFallsBack ==
    (pc \in {"executed", "execute_raised"} /\ docker_available
        /\ env.fail \in {"client", "write", "run", "logs"})
      => (pc = "executed" /\ LabelledNotExecuted(runtime_logs, language))

\* C5: flag false: for every supported language the outcome is the fallback
\* analysis, labelled as not executed, and no container was started.
C5_FlagFalseFallback ==
    (pc \in {"executed", "execute_raised"} /\ ~docker_available)
      => (pc = "executed" /\ LabelledNotExecuted(runtime_logs, language)
            /\ containers = 0)

----------------------------------------------------------------------------
(* SpecProcess: one server process.  The module body computes the capability *)
(* flag, then concurrent requests call run_in_docker, interleaved statement  *)
(* by statement.  pc, env, code, language, runtime_logs, fault, calls and    *)
(* containers are here functions of the worker; pc[0] is the module body.    *)

\* number of requests the process serves concurrently
MaxWorkers == 2

Workers == 1..MaxWorkers

\* the arguments of the execute calls
ProcessSubmissions ==
    { [code |-> <<"print(x)">>, language |-> "python"],
      [code |-> <<"Foo a = new Foo(); a = null;">>, language |-> "java"] }

InitProcess ==
    /\ pc = [w \in {0} \cup Workers |-> IF w = 0 THEN "import" ELSE "idle"]
    /\ docker_available = FALSE                                    \* line 272
    /\ env = [w \in Workers |-> NoDocker]
    /\ code = [w \in Workers |-> <<>>]
    /\ language = [w \in Workers |-> ""]
    /\ runtime_logs = [w \in Workers |-> <<>>]
    /\ fault = [w \in Workers |-> NoException]
    /\ calls = [w \in Workers |-> <<>>]
    /\ containers = [w \in Workers |-> 0]
    /\ issues = EmptyIssues /\ suggestions = <<>> /\ tmpfiles = {}
    /\ NoRequest

processFrame == <<issues, suggestions, tmpfiles>>

\* lines 272-278: the module body probes the engine once
Startup ==
    /\ pc[0] = "import"
    /\ \E reachable \in BOOLEAN : docker_available' = reachable
    /\ pc' = [pc EXCEPT ![0] = "serving"]
    /\ UNCHANGED <<env, code, language, runtime_logs, fault, calls, containers>>
    /\ UNCHANGED processFrame /\ UNCHANGED requestVars

\* line 283: a request reaches run_in_docker(code, language)
CallStart(w) ==
    /\ pc[0] = "serving" /\ pc[w] = "idle"
    /\ \E sub \in ProcessSubmissions, d \in DockerRuns :
         /\ code' = [code EXCEPT ![w] = sub.code]
         /\ language' = [language EXCEPT ![w] = sub.language]
         /\ env' = [env EXCEPT ![w] = d]
    /\ pc' = [pc EXCEPT ![w] = "check_flag"]
    /\ UNCHANGED <<docker_available, runtime_logs, fault, calls, containers>>
    /\ UNCHANGED processFrame /\ UNCHANGED requestVars

\* lines 285-286: the flag is read
CheckFlag(w) ==
    /\ pc[w] = "check_flag"
    /\ pc' = [pc EXCEPT ![w] = IF docker_available THEN "from_env" ELSE "fallback"]
    /\ UNCHANGED <<docker_available, env, code, language, runtime_logs, fault, calls,
                   containers>>
    /\ UNCHANGED processFrame /\ UNCHANGED requestVars

\* a plausible slip: the except branch re-probes and records the engine as gone
FromEnv_reprobe(w) ==
    /\ pc[w] = "from_env"
    /\ IF env[w].fail \in {"client", "write"}
       THEN /\ pc' = [pc EXCEPT ![w] = "fallback"]
            /\ docker_available' = FALSE
       ELSE /\ pc' = [pc EXCEPT ![w] = "run"]
            /\ UNCHANGED docker_available
    /\ calls' = [calls EXCEPT ![w] = Append(@, "from_env")]
    /\ UNCHANGED <<env, code, language, runtime_logs, fault, containers>>
    /\ UNCHANGED processFrame /\ UNCHANGED requestVars

\* lines 289-296 and 332-335: client and source file; a failure goes to the
\* fallback and leaves the flag alone
FromEnv(w) ==
    /\ pc[w] = "from_env"
    /\ pc' = [pc EXCEPT ![w] = IF env[w].fail \in {"client", "write"}
                               THEN "fallback" ELSE "run"]
    /\ calls' = [calls EXCEPT ![w] = Append(@, "from_env")]
    /\ UNCHANGED <<docker_available, env, code, language, runtime_logs, fault, containers>>
    /\ UNCHANGED processFrame /\ UNCHANGED requestVars

\* lines 298-326 and 330-331: the container is started
ContainerRun(w) ==
    /\ pc[w] = "run"
    /\ IF env[w].fail = "run"
       THEN /\ runtime_logs' = [runtime_logs EXCEPT ![w] =
                                  <<"Runtime error: 404 Client Error: image not found">>]
            /\ pc' = [pc EXCEPT ![w] = "returned"]
            /\ UNCHANGED containers
       ELSE /\ containers' = [containers EXCEPT ![w] = @ + 1]
            /\ pc' = [pc EXCEPT ![w] = "logs"]
            /\ UNCHANGED runtime_logs
    /\ calls' = [calls EXCEPT ![w] = Append(@, "run")]
    /\ UNCHANGED <<docker_available, env, code, language, fault>>
    /\ UNCHANGED processFrame /\ UNCHANGED requestVars

\* lines 328-331 and 336: the logs are read and returned
ContainerLogs(w) ==
    /\ pc[w] = "logs"
    /\ runtime_logs' = [runtime_logs EXCEPT ![w] =
           IF env[w].fail = "logs"
           THEN <<"Runtime error: 409 Client Error: container removed">>
           ELSE IF Len(env[w].logs) > 0 THEN env[w].logs ELSE <<"No output">>]
    /\ calls' = [calls EXCEPT ![w] = Append(@, "logs")]
    /\ pc' = [pc EXCEPT ![w] = "returned"]
    /\ UNCHANGED <<docker_available, env, code, language, fault, containers>>
    /\ UNCHANGED processFrame /\ UNCHANGED requestVars

\* lines 286 and 335: return run_code_fallback(code, language)
Fallback(w) ==
    /\ pc[w] = "fallback"
    /\ LET r == run_code_fallback(code[w], language[w])
       IN  /\ runtime_logs' = [runtime_logs EXCEPT ![w] = r.value]
           /\ fault' = [fault EXCEPT ![w] = r.raised]
           /\ pc' = [pc EXCEPT ![w] = IF r.raised = NoException THEN "returned"
                                      ELSE "raised"]
    /\ calls' = [calls EXCEPT ![w] = Append(@, "fallback")]
    /\ UNCHANGED <<docker_available, env, code, language, containers>>
    /\ UNCHANGED processFrame /\ UNCHANGED requestVars

NextProcess ==
    \/ Startup
    \/ \E w \in Workers :
         \/ CallStart(w) \/ CheckFlag(w) \/ FromEnv(w) \/ ContainerRun(w)
         \/ ContainerLogs(w) \/ Fallback(w)

SpecProcess == InitProcess /\ [][NextProcess]_vars

CallOver(w) == pc[w] \in {"returned", "raised"}

\* the step-by-step call agrees with run_in_docker as a whole
ProcessCallsAgree ==
    \A w \in Workers :
        CallOver(w) =>
            LET r == run_in_docker(code[w], language[w], docker_available, env[w])
            IN  /\ fault[w] = r.raised /\ runtime_logs[w] = r.value
                /\ containers[w] = r.containers

\* C16: once the module body has computed the capability flag no request
\* writes it, however the calls interleave and also when a container step
\* fails; so with the flag false every call takes the fallback path and
\* starts no container, and with the flag true a call whose container steps
\* all succeed returns the container's output whatever happened to the
\* other calls.
C16_FlagReadOnly ==
    /\ [][pc[0] = "serving" => docker_available' = docker_available]_vars
    /\ [](\A w \in Workers :
            CallOver(w) =>
              /\ ~docker_available =>
                    calls[w] = <<"fallback">> /\ containers[w] = 0
              /\ (docker_available /\ env[w].fail = "none") =>
                    /\ calls[w] = <<"from_env", "run", "logs">>
                    /\ containers[w] = 1
                    /\ runtime_logs[w] = IF Len(env[w].logs) > 0 THEN env[w].logs
                                         ELSE <<"No output">>)

\* flag true: one call lost its client and fell back, a later call ran in a
\* container, and the flag is still true
C16_Witness ==
    /\ docker_available
    /\ \E v, w \in Workers :
         /\ CallOver(v) /\ env[v].fail = "client"
         /\ calls[v] = <<"from_env", "fallback">>
         /\ pc[w] = "returned" /\ env[w].fail = "none"
         /\ runtime_logs[w] = <<"Hello, World!", "">>

----------------------------------------------------------------------------
(* SpecStatic: static analysis layer by layer, with its temp files *)

PendingTools == [flake8 |-> "pending", mypy |-> "pending", cppcheck |-> "pending",
                 clang |-> "pending", valgrind |-> "pending", nt |-> FALSE]

InitStatic ==
    /\ pc = "static"
    /\ code \in BlobsOver(Lines, MaxToolLines)
    /\ language \in {"python", "c", "cpp"}
    /\ \E nt \in BOOLEAN : env = [PendingTools EXCEPT !.nt = nt]
    /\ docker_available = FALSE
    /\ NoRequest
    /\ issues = EmptyIssues /\ runtime_logs = <<>> /\ suggestions = <<>>
    /\ calls = <<>> /\ containers = 0 /\ fault = NoException /\ tmpfiles = {}

staticFrame == <<code, language, runtime_logs, suggestions, docker_available,
                 containers, fault>>

Put(d, k, v) == [x \in DOMAIN d \cup {k} |-> IF x = k THEN v ELSE d[x]]

\* run_static_analysis, lines 249-251: the code is written to a temp file
PyWriteTemp ==
    /\ pc = "static" /\ language = "python"
    /\ tmpfiles' = tmpfiles \cup {"source.py"}
    /\ calls' = Append(calls, "static")
    /\ pc' = "flake8"
    /\ UNCHANGED <<env, issues>> /\ UNCHANGED staticFrame /\ UNCHANGED requestVars

\* lines 254-258
PyFlake8 ==
    /\ pc = "flake8"
    /\ \E run \in PyToolRuns :
         /\ env' = [env EXCEPT !.flake8 = run]
         /\ issues' = Put(issues, "flake8", PyToolEntry("flake8", run))
    /\ pc' = "mypy"
    /\ UNCHANGED <<tmpfiles, calls>> /\ UNCHANGED staticFrame /\ UNCHANGED requestVars

\* lines 260-264
PyMypy ==
    /\ pc = "mypy"
    /\ \E run \in PyToolRuns :
         /\ env' = [env EXCEPT !.mypy = run]
         /\ issues' = Put(issues, "mypy", PyToolEntry("mypy", run))
    /\ pc' = "unlink"
    /\ UNCHANGED <<tmpfiles, calls>> /\ UNCHANGED staticFrame /\ UNCHANGED requestVars

\* lines 266-267
PyUnlink ==
    /\ pc = "unlink"
    /\ tmpfiles' = tmpfiles \ {"source.py"}
    /\ pc' = "static_ret"
    /\ UNCHANGED <<env, issues, calls>> /\ UNCHANGED staticFrame /\ UNCHANGED requestVars

\* run_c_static_analysis, lines 122-165
CConceptualScan ==
    /\ pc = "static" /\ language \in {"c", "cpp"}
    /\ issues' = Put(issues, "conceptual_errors", ConceptualErrors(code))
    /\ calls' = Append(calls, "static")
    /\ pc' = "cppcheck"
    /\ UNCHANGED <<env, tmpfiles>> /\ UNCHANGED staticFrame /\ UNCHANGED requestVars

\* a plausible slip: no handler around the cppcheck run, a raising tool ends
\* the analysis with the entries collected so far
CCppcheck_aborting ==
    /\ pc = "cppcheck"
    /\ \E run \in ToolRuns :
         LET l == cppcheck_layer(run, language = "cpp")
         IN  /\ env' = [env EXCEPT !.cppcheck = run]
             /\ tmpfiles' = tmpfiles \cup l.left
             /\ IF run = "raises"
                THEN pc' = "static_ret" /\ UNCHANGED issues
                ELSE pc' = "clang" /\ issues' = Put(issues, "cppcheck", l.entry)
    /\ UNCHANGED calls /\ UNCHANGED staticFrame /\ UNCHANGED requestVars

\* lines 170-187
CCppcheck ==
    /\ pc = "cppcheck"
    /\ \E run \in ToolRuns :
         LET l == cppcheck_layer(run, language = "cpp")
         IN  /\ env' = [env EXCEPT !.cppcheck = run]
             /\ issues' = Put(issues, "cppcheck", l.entry)
             /\ tmpfiles' = tmpfiles \cup l.left
    /\ pc' = "clang"
    /\ UNCHANGED calls /\ UNCHANGED staticFrame /\ UNCHANGED requestVars

\* lines 190-208
CClang ==
    /\ pc = "clang"
    /\ \E run \in ToolRuns :
         LET l == clang_layer(run, language = "cpp")
         IN  /\ env' = [env EXCEPT !.clang = run]
             /\ issues' = Put(issues, "clang_analyze", l.entry)
             /\ tmpfiles' = tmpfiles \cup l.left
    /\ pc' = "valgrind"
    /\ UNCHANGED calls /\ UNCHANGED staticFrame /\ UNCHANGED requestVars

\* lines 211-243
CValgrind ==
    /\ pc = "valgrind"
    /\ \E run \in ValgrindRuns :
         LET l == valgrind_layer(run, env.nt, language = "cpp")
         IN  /\ env' = [env EXCEPT !.valgrind = run]
             /\ issues' = Put(issues, "memory_analysis", l.entry)
             /\ tmpfiles' = tmpfiles \cup l.left
    /\ pc' = "static_ret"
    /\ UNCHANGED calls /\ UNCHANGED staticFrame /\ UNCHANGED requestVars

NextStatic ==
    \/ PyWriteTemp \/ PyFlake8 \/ PyMypy \/ PyUnlink
    \/ CConceptualScan \/ CCppcheck \/ CClang \/ CValgrind

SpecStatic == InitStatic /\ [][NextStatic]_vars

\* C2: when static analysis returns, none of its temp files (python source,
\* c/cpp sources, compiled binary) exists any more, whatever the tools did.
C2_TempFilesRemoved == pc = "static_ret" => tmpfiles = {}

\* a text has the given line
HasLine(text, line) == \E i \in 1..Len(text) : text[i] = line

\* the entries a FindingSet must hold for a language
LayersOf(lang) ==
    IF lang = "python" THEN {"flake8", "mypy"}
    ELSE {"conceptual_errors", "cppcheck", "clang_analyze", "memory_analysis"}

\* what each tool's own entry must read, given what that tool did
OwnEntry(k) ==
    CASE k = "flake8" -> PyToolEntry("flake8", env.flake8)
      [] k = "mypy" -> PyToolEntry("mypy", env.mypy)
      [] k = "conceptual_errors" -> ConceptualErrors(code)
      [] k = "cppcheck" -> cppcheck_layer(env.cppcheck, language = "cpp").entry
      [] k = "clang_analyze" -> clang_layer(env.clang, language = "cpp").entry
      [] OTHER -> valgrind_layer(env.valgrind, env.nt, language = "cpp").entry

\* C12: whatever each tool did (missing, clean, diagnostics, raising), the
\* FindingSet returned for c/cpp has an entry for each of its four layers and
\* the one for python an entry for each of its two tools; every entry is a
\* non-empty text decided by its own tool alone.
C12_EveryLayerReported ==
    pc = "static_ret" =>
        /\ DOMAIN issues = LayersOf(language)
        /\ \A k \in DOMAIN issues : Len(issues[k]) > 0 /\ issues[k] = OwnEntry(k)

\* a c analysis returned with cppcheck raising, clang missing and valgrind
\* timing out, and all four entries are there
C12_Witness ==
    /\ pc = "static_ret" /\ language = "c"
    /\ env.cppcheck = "raises" /\ env.clang = "missing" /\ env.valgrind = "timeout"
    /\ ~env.nt
    /\ DOMAIN issues = {"conceptual_errors", "cppcheck", "clang_analyze", "memory_analysis"}
    /\ issues["clang_analyze"]
         = <<"Tool not available (clang/clang++ is not installed or not in PATH)">>

----------------------------------------------------------------------------
(* SpecScan: the conceptual scan of run_c_static_analysis on its own, over   *)
(* blobs long enough for several rules to fire together                      *)

\* longest code blob (in lines) given to the conceptual scan
MaxScanLines == 3

InitScan ==
    /\ pc = "static"
    /\ code \in BlobsOver(Lines, MaxScanLines)
    /\ language \in {"c", "cpp"}
    /\ env = PendingTools
    /\ docker_available = FALSE
    /\ NoRequest
    /\ issues = EmptyIssues /\ runtime_logs = <<>> /\ suggestions = <<>>
    /\ calls = <<>> /\ containers = 0 /\ fault = NoException /\ tmpfiles = {}

NextScan == CConceptualScan

SpecScan == InitScan /\ [][NextScan]_vars

ScanReturned == pc = "cppcheck" /\ "conceptual_errors" \in DOMAIN issues

\* some rule of the scan other than the leak rule matches the code
OtherRuleFires(c) ==
    \/ Search(ReNullArrow \cup ReNullStar, c)
    \/ Search(ReUninit, c)
    \/ Search(ReStrcpy, c) /\ ~Search(ReStrn, c)
    \/ Search(ReForEver, c)
    \/ Search(ReFreeArrow \cup ReFreeStar, c)
    \/ ArrayMessages(ArrayDecls(c), ArrayDecls(c), 1, 1) # <<>>

LeakInCode(c) == Search(InMalloc, c) /\ ~Search(InFree, c)

\* C13: the conceptual_errors entry holds the memory-leak warning exactly when
\* the code contains malloc and does not contain free, whatever other rules
\* fire; when no rule fires the entry is the no-conceptual-issues sentinel.
C13_LeakRuleIndependent ==
    ScanReturned =>
        /\ HasLine(issues["conceptual_errors"], MemoryLeakWarning) <=> LeakInCode(code)
        /\ (~LeakInCode(code) /\ ~OtherRuleFires(code))
              <=> issues["conceptual_errors"] = NoConceptualIssues

\* the leak warning reported next to a null-dereference and an
\* uninitialized-variable finding
C13_Witness ==
    /\ ScanReturned
    /\ Search(InMalloc, code) /\ Search(ReNullStar, code) /\ Search(ReUninit, code)
    /\ HasLine(issues["conceptual_errors"], MemoryLeakWarning)
    /\ Len(issues["conceptual_errors"]) = 3

----------------------------------------------------------------------------
(* SpecSynth: ai_fix_agent on the findings and runtime outcomes the earlier  *)
(* pipeline steps can produce                                                *)

\* the FindingSets the dispatcher can hand over for a blob and a language
FindingSets(c, lang) ==
    CASE lang = "python" -> { run_static_analysis(c, t).issues : t \in PyToolEnvs }
      [] lang \in {"c", "cpp"} ->
            { run_c_static_analysis(c, lang = "cpp", t).issues : t \in CToolEnvs }
      [] OTHER -> { EmptyIssues }

\* the outcomes run_in_docker can return for a blob and a language
Outcomes(c, lang) ==
    { run_in_docker(c, lang, TRUE, d) : d \in DockerRuns }
        \cup { run_in_docker(c, lang, FALSE, NoDocker) }

RuntimeValues(c, lang) ==
    { o.value : o \in { x \in Outcomes(c, lang) : x.raised = NoException } }

InitSynth ==
    /\ pc = "synthesize"
    /\ code \in BlobsOver(Lines, MaxToolLines)
    /\ language \in SupportedLanguages
    /\ issues \in FindingSets(code, language)
    /\ runtime_logs \in RuntimeValues(code, language)
    /\ env = <<>>
    /\ docker_available = FALSE
    /\ NoRequest
    /\ suggestions = <<>> /\ calls = <<>> /\ containers = 0
    /\ fault = NoException /\ tmpfiles = {}

\* ai_fix_agent, lines 400-528
Synthesize ==
    /\ pc = "synthesize"
    /\ \E reply \in SynthReplies :
         /\ env' = reply
         /\ suggestions' = ai_fix_agent(code, issues, runtime_logs, language, reply)
    /\ calls' = Append(calls, "synthesize")
    /\ pc' = "synthesized"
    /\ UNCHANGED <<code, language, issues, runtime_logs, tmpfiles,
                   docker_available, containers, fault>>
    /\ UNCHANGED requestVars

NextSynth == Synthesize

SpecSynth == InitSynth /\ [][NextSynth]_vars

\* lines of a runtime payload that report no problem: the labels of the
\* fallback analysis, its all-clear line, the no-output sentinel, and the
\* output of a program that ran cleanly
CleanLines ==
    { NotExecutedLabel(l) : l \in SupportedLanguages }
        \cup { "No syntax errors detected", "No output", "Hello, World!",
               "Tests ran successfully", "" }

SignalsNonSuccess(text) == \E i \in 1..Len(text) : text[i] \notin CleanLines

EndsWith(text, tail) ==
    /\ Len(text) >= Len(tail)
    /\ SubSeq(text, Len(text) - Len(tail) + 1, Len(text)) = tail

\* C10: in the report assembled when the backend fails, the runtime payload
\* appears (under RUNTIME ISSUES:) only if it signals a non-success condition,
\* conceptual_errors only if it is not the no-issues sentinel, a static tool's
\* output only if it is not the "No issues" sentinel, and the fixed bullets
\* always close the report.
C10_FallbackReport ==
    (pc = "synthesized" /\ ~env.ok) =>
        /\ HasLine(suggestions, "RUNTIME ISSUES:") => SignalsNonSuccess(runtime_logs)
        /\ HasLine(suggestions, "CONCEPTUAL ISSUES:")
              => issues["conceptual_errors"] # NoConceptualIssues
        /\ HasLine(suggestions, "STATIC ANALYSIS (flake8):")
              => issues["flake8"] # <<"No issues">>
        /\ HasLine(suggestions, "TYPE CHECKING (mypy):")
              => issues["mypy"] # <<"No issues">>
        /\ EndsWith(suggestions,
                    GenericBullets \o (IF language \in {"c", "cpp"} THEN CBullets ELSE <<>>)
                      \o <<"">>)

----------------------------------------------------------------------------
(* Spec: the two request handlers, analyze and analyze_repo.  The answers of *)
(* the external collaborators are fixed for the duration of one request.     *)

\* longest code blob (in lines) posted to /analyze
MaxRequestLines == 1
\* most files in a cloned repository
MaxFiles == 2

BlankLines == { " " }
RequestLines == { " ", "print(x)", "p = malloc(n);", "Foo a = new Foo(); a = null;" }

\* not code.strip()
IsBlank(c) == \A i \in 1..Len(c) : c[i] \in BlankLines

RequestTools ==
    { [flake8 |-> "missing", mypy |-> "missing", cppcheck |-> "missing",
       clang |-> "missing", valgrind |-> "missing", nt |-> FALSE],
      [flake8 |-> "clean", mypy |-> "clean", cppcheck |-> "clean",
       clang |-> "clean", valgrind |-> "clean", nt |-> FALSE],
      [flake8 |-> "diag", mypy |-> "clean", cppcheck |-> "raises",
       clang |-> "diag", valgrind |-> "timeout", nt |-> FALSE],
      [flake8 |-> "clean", mypy |-> "diag", cppcheck |-> "diag",
       clang |-> "raises", valgrind |-> "compile_failed", nt |-> FALSE],
      [flake8 |-> "raises", mypy |-> "missing", cppcheck |-> "clean",
       clang |-> "missing", valgrind |-> "diag", nt |-> TRUE] }

RequestDockerRuns(flag) == IF flag THEN DockerRuns ELSE { NoDocker }

RequestEnvs(flag) ==
    [llm_up : BOOLEAN, synth : SynthReplies, tools : RequestTools,
     docker : RequestDockerRuns(flag)]

\* the replies the detection call can get during this request
DetectReplies(e) ==
    IF e.llm_up THEN { [ok |-> TRUE, text |-> <<a>>] : a \in LLMAnswers } ELSE { LLMDown }

AnalysisResult(l, i, r, s) ==
    [language |-> l, issues |-> i, runtime |-> r, suggestions |-> s]
ErrorEntry(msg) == [error |-> msg]

\* the static-analysis dispatch of both handlers (lines 544-548, 606-610)
Dispatch(c, lang, t) ==
    CASE lang = "python" -> run_static_analysis(c, t)
      [] lang \in {"c", "cpp"} -> run_c_static_analysis(c, lang = "cpp", t)
      [] OTHER -> [issues |-> EmptyIssues, left |-> {}]

Init ==
    /\ pc = "idle"
    /\ docker_available \in BOOLEAN
    /\ env = <<>>
    /\ code = <<>>
    /\ NoRequest /\ NoSubmission

submissionVars == <<code, language, issues, runtime_logs, suggestions, calls>>
repoVars == <<repo_url, results, files, workspace, file_path, walk_log>>

(* ---- POST /analyze ---- *)

\* lines 533-537
AnalyzeReceive ==
    /\ pc = "idle"
    /\ \E c \in BlobsOver(RequestLines, MaxRequestLines), e \in RequestEnvs(docker_available) :
         /\ code' = c
         /\ env' = e
         /\ IF IsBlank(c)
            THEN /\ status' = 400 /\ detail' = <<"No code provided">>
                 /\ fault' = "empty_code" /\ pc' = "done"
            ELSE /\ pc' = "a_detect" /\ UNCHANGED <<status, detail, fault>>
    /\ endpoint' = "analyze"
    /\ UNCHANGED <<language, issues, runtime_logs, suggestions, calls, tmpfiles,
                   docker_available, containers>>
    /\ UNCHANGED repoVars

\* a plausible slip: the unknown language is not rejected
A_Detect_unchecked ==
    /\ pc = "a_detect"
    /\ \E reply \in DetectReplies(env) :
         language' = detect_language_with_llm(code, reply)
    /\ calls' = Append(calls, "detect")
    /\ pc' = "a_static"
    /\ UNCHANGED <<status, detail, fault>>
    /\ UNCHANGED <<endpoint, env, code, issues, runtime_logs, suggestions, tmpfiles,
                   docker_available, containers>>
    /\ UNCHANGED repoVars

\* lines 539-541
A_Detect ==
    /\ pc = "a_detect"
    /\ \E reply \in DetectReplies(env) :
         language' = detect_language_with_llm(code, reply)
    /\ calls' = Append(calls, "detect")
    /\ IF language' = "unknown"
       THEN /\ status' = 400 /\ detail' = <<"Unsupported or undetectable language">>
            /\ fault' = "unknown_language" /\ pc' = "done"
       ELSE /\ pc' = "a_static" /\ UNCHANGED <<status, detail, fault>>
    /\ UNCHANGED <<endpoint, env, code, issues, runtime_logs, suggestions, tmpfiles,
                   docker_available, containers>>
    /\ UNCHANGED repoVars

\* lines 544-548
A_Static ==
    /\ pc = "a_static"
    /\ LET r == Dispatch(code, language, env.tools)
       IN  /\ issues' = r.issues
           /\ tmpfiles' = tmpfiles \cup r.left
    /\ calls' = IF language = "java" THEN calls ELSE Append(calls, "static")
    /\ pc' = "a_execute"
    /\ UNCHANGED <<endpoint, env, code, language, runtime_logs, suggestions, status,
                   detail, fault, docker_available, containers>>
    /\ UNCHANGED repoVars

\* line 550; an exception leaves the handler and the framework answers 500
A_Execute ==
    /\ pc = "a_execute"
    /\ LET r == run_in_docker(code, language, docker_available, env.docker)
       IN  /\ containers' = containers + r.containers
           /\ IF r.raised = NoException
              THEN /\ runtime_logs' = r.value /\ pc' = "a_synthesize"
                   /\ UNCHANGED <<status, detail, fault>>
              ELSE /\ status' = 500 /\ detail' = <<"Internal Server Error">>
                   /\ fault' = r.raised /\ pc' = "done"
                   /\ UNCHANGED runtime_logs
    /\ calls' = Append(calls, "execute")
    /\ UNCHANGED <<endpoint, env, code, language, issues, suggestions, tmpfiles,
                   docker_available>>
    /\ UNCHANGED repoVars

\* a plausible slip: the synthesizer is handed a fresh empty dict, not the
\* findings of this submission
A_Synthesize_stale ==
    /\ pc = "a_synthesize"
    /\ suggestions' = ai_fix_agent(code, EmptyIssues, runtime_logs, language, env.synth)
    /\ calls' = Append(calls, "synthesize")
    /\ pc' = "a_respond"
    /\ UNCHANGED <<endpoint, env, code, language, issues, runtime_logs, status, detail,
                   fault, tmpfiles, docker_available, containers>>
    /\ UNCHANGED repoVars

\* line 551
A_Synthesize ==
    /\ pc = "a_synthesize"
    /\ suggestions' = ai_fix_agent(code, issues, runtime_logs, language, env.synth)
    /\ calls' = Append(calls, "synthesize")
    /\ pc' = "a_respond"
    /\ UNCHANGED <<endpoint, env, code, language, issues, runtime_logs, status, detail,
                   fault, tmpfiles, docker_available, containers>>
    /\ UNCHANGED repoVars

\* lines 553-560
A_Respond ==
    /\ pc = "a_respond"
    /\ results' = AnalysisResult(language, issues, runtime_logs, suggestions)
    /\ status' = 200
    /\ pc' = "done"
    /\ UNCHANGED <<endpoint, env, detail, fault, tmpfiles, docker_available, containers>>
    /\ UNCHANGED submissionVars
    /\ UNCHANGED <<repo_url, files, workspace, file_path, walk_log>>

(* ---- POST /analyze_repo ---- *)

\* repository references as sequences of URL parts
RepoRefs ==
    { <<>>, <<"repo">>, <<"owner/repo">>, <<"https://github.com/", "owner/repo">>,
      <<"https://github.com/", "owner/repo", ".git">> }

HttpParts  == { "https://github.com/" }                    \* parts starting with "http"
SlashParts == { "owner/repo", "https://github.com/" }      \* parts containing "/"

EndsWithGit(u) == Len(u) > 0 /\ u[Len(u)] = ".git"
StartsWithHttp(u) == Len(u) > 0 /\ u[1] \in HttpParts
HasSlash(u) == \E i \in 1..Len(u) : u[i] \in SlashParts

\* lines 573-580
Normalize(u) ==
    IF ~EndsWithGit(u) /\ ~StartsWithHttp(u)
    THEN IF HasSlash(u)
         THEN [ok |-> TRUE, url |-> <<"https://github.com/">> \o u \o <<".git">>]
         ELSE [ok |-> FALSE, url |-> u]
    ELSE IF ~EndsWithGit(u) /\ StartsWithHttp(u)
         THEN [ok |-> TRUE, url |-> u \o <<".git">>]
         ELSE [ok |-> TRUE, url |-> u]

\* messages (lower-cased) that contain the word "docker"
InDockerLower == { "400: Failed to clone repo: could not resolve host: docker.internal" }

\* str(e) of HTTPException(status_code=400, detail=d), which depends on the
\* installed framework: "400: <detail>" where the class defines __str__, the
\* empty text where it does not (the arguments are passed by keyword, so
\* Exception keeps none of them)
Str400(d) == { <<"400: " \o d>>, <<"">> }

\* the handler's catch-all, lines 629-634: every exception raised in the try
\* body, the handler's own HTTPException(400) included, is answered with 500
OuterExcept(msg) ==
    [status |-> 500,
     detail |-> IF Search(InDockerLower, msg)
                THEN <<"Docker error: " \o msg[1]
                         \o ". Make sure Docker is installed and running.">>
                ELSE <<"Unexpected error: " \o msg[1]>>]

(* SpecNormalize: the reference check of analyze_repo (lines 566-580) on its *)
(* own, over references put together from URL parts                         *)

\* most parts in a repository reference
MaxParts == 3

UrlParts == { "https://github.com/", "owner/repo", "repo", ".git" }

InitNormalize ==
    /\ pc = "r_receive"
    /\ endpoint = "analyze_repo"
    /\ repo_url \in BlobsOver(UrlParts, MaxParts)
    /\ env = <<>> /\ code = <<>> /\ docker_available = FALSE
    /\ status = 0 /\ detail = <<>> /\ results = EmptyIssues /\ files = {}
    /\ workspace = FALSE /\ file_path = "" /\ walk_log = EmptyIssues
    /\ NoSubmission

\* lines 566-583: the reference is refused, or rewritten and handed to the clone
R_Normalize ==
    /\ pc = "r_receive"
    /\ IF Len(repo_url) = 0
       THEN /\ \E msg \in Str400("No repository URL provided") :
                 /\ status' = OuterExcept(msg).status
                 /\ detail' = OuterExcept(msg).detail
            /\ fault' = "empty_url" /\ pc' = "done"
            /\ UNCHANGED <<repo_url, workspace>>
       ELSE IF ~Normalize(repo_url).ok
       THEN /\ \E msg \in Str400("Invalid repository URL format") :
                 /\ status' = OuterExcept(msg).status
                 /\ detail' = OuterExcept(msg).detail
            /\ fault' = "malformed_url" /\ pc' = "done"
            /\ UNCHANGED <<repo_url, workspace>>
       ELSE /\ repo_url' = Normalize(repo_url).url
            /\ workspace' = TRUE
            /\ pc' = "r_clone"
            /\ UNCHANGED <<status, detail, fault>>
    /\ UNCHANGED <<endpoint, env, results, files, file_path, walk_log, tmpfiles,
                   docker_available, containers>>
    /\ UNCHANGED submissionVars

NextNormalize == R_Normalize

SpecNormalize == InitNormalize /\ [][NextNormalize]_vars

\* the two shapes of reference the claim accepts
IsFullUrl(u) == StartsWithHttp(u)
IsShorthand(u) == ~StartsWithHttp(u) /\ HasSlash(u) /\ ~EndsWithGit(u)

\* C14: a non-empty reference is handed to the clone only in two shapes: an
\* owner/repo shorthand, rewritten to https://github.com/<shorthand>.git, and
\* a full http(s) URL, with .git appended when it lacks it; anything else is
\* refused as malformed and no clone is attempted; a rewritten reference is
\* left unchanged by a second rewriting.
C14_NormalizeShapes ==
    [][ (pc = "r_receive" /\ Len(repo_url) > 0) =>
          /\ IsShorthand(repo_url) =>
                /\ pc' = "r_clone"
                /\ repo_url' = <<"https://github.com/">> \o repo_url \o <<".git">>
          /\ IsFullUrl(repo_url) =>
                /\ pc' = "r_clone"
                /\ repo_url' = IF EndsWithGit(repo_url) THEN repo_url
                                ELSE repo_url \o <<".git">>
          /\ (~IsShorthand(repo_url) /\ ~IsFullUrl(repo_url)) =>
                /\ pc' = "done" /\ fault' = "malformed_url" /\ ~workspace'
          /\ pc' = "r_clone" =>
                /\ Normalize(repo_url').ok
                /\ Normalize(repo_url').url = repo_url'
      ]_vars

\* the files a clone may hold
RepoFiles ==
    { [path |-> "main.py", code |-> <<"print(x)">>],
      [path |-> "src/util.c", code |-> <<"p = malloc(n);">>],
      [path |-> "App.JAVA", code |-> <<"Foo a = new Foo(); a = null;">>],
      [path |-> "README.md", code |-> <<"y = 1">>] }

RepoTrees == { t \in SUBSET RepoFiles : Cardinality(t) <= MaxFiles }

\* os.path.splitext(file)[1].lower()
Ext(path) ==
    CASE path = "main.py"    -> ".py"
      [] path = "src/util.c" -> ".c"
      [] path = "App.JAVA"   -> ".java"
      [] OTHER               -> ".md"

SUPPORTED_EXTENSIONS == { ".py", ".java", ".c", ".cpp" }

CloneErrors == { "repository not found", "could not resolve host: docker.internal" }

\* lines 564-583
RepoReceive ==
    /\ pc = "idle"
    /\ \E ref \in RepoRefs, e \in RequestEnvs(docker_available) :
         /\ env' = e
         /\ IF Len(ref) = 0
            THEN /\ \E msg \in Str400("No repository URL provided") :
                      /\ status' = OuterExcept(msg).status
                      /\ detail' = OuterExcept(msg).detail
                 /\ fault' = "empty_url" /\ pc' = "done"
                 /\ UNCHANGED <<repo_url, workspace>>
            ELSE IF ~Normalize(ref).ok
            THEN /\ \E msg \in Str400("Invalid repository URL format") :
                      /\ status' = OuterExcept(msg).status
                      /\ detail' = OuterExcept(msg).detail
                 /\ fault' = "malformed_url" /\ pc' = "done"
                 /\ repo_url' = ref /\ UNCHANGED workspace
            ELSE /\ repo_url' = Normalize(ref).url
                 /\ workspace' = TRUE
                 /\ pc' = "r_clone"
                 /\ UNCHANGED <<status, detail, fault>>
    /\ endpoint' = "analyze_repo"
    /\ UNCHANGED <<results, files, file_path, walk_log, tmpfiles, docker_available,
                   containers>>
    /\ UNCHANGED submissionVars

\* lines 584-587: the clone succeeds and the walk starts
R_CloneOk ==
    /\ pc = "r_clone"
    /\ \E tree \in RepoTrees : files' = tree
    /\ pc' = "r_walk"
    /\ UNCHANGED <<endpoint, env, status, detail, fault, repo_url, results, workspace,
                   file_path, walk_log, tmpfiles, docker_available, containers>>
    /\ UNCHANGED submissionVars

\* a plausible slip: a workspace made with mkdtemp and removed only after the walk
R_CloneFail_mkdtemp ==
    /\ pc = "r_clone"
    /\ \E m \in CloneErrors : \E msg \in Str400("Failed to clone repo: " \o m) :
         /\ status' = OuterExcept(msg).status
         /\ detail' = OuterExcept(msg).detail
    /\ fault' = "clone_failed"
    /\ pc' = "done"
    /\ UNCHANGED <<endpoint, env, repo_url, results, files, file_path, walk_log,
                   tmpfiles, docker_available, containers, workspace>>
    /\ UNCHANGED submissionVars

\* lines 588-590 and 629-634: the clone raises; the with block removes the
\* workspace on the way out
R_CloneFail ==
    /\ pc = "r_clone"
    /\ \E m \in CloneErrors : \E msg \in Str400("Failed to clone repo: " \o m) :
         /\ status' = OuterExcept(msg).status
         /\ detail' = OuterExcept(msg).detail
    /\ workspace' = FALSE
    /\ fault' = "clone_failed"
    /\ pc' = "done"
    /\ UNCHANGED <<endpoint, env, repo_url, results, files, file_path, walk_log,
                   tmpfiles, docker_available, containers>>
    /\ UNCHANGED submissionVars

\* lines 592-599 and 622-625: the next file of the walk; open() may raise
R_NextFile ==
    /\ pc = "r_walk"
    /\ \E f \in files :
         /\ files' = files \ {f}
         /\ IF Ext(f.path) \notin SUPPORTED_EXTENSIONS
            THEN /\ walk_log' = Put(walk_log, f.path, "unsupported")
                 /\ UNCHANGED <<pc, results, file_path>>
                 /\ UNCHANGED submissionVars
            ELSE \* line 596 assigns file_path, line 599 code; language, issues,
                 \* runtime_logs and suggestions keep what the previous file
                 \* left in them until lines 601-612 assign them again
                 /\ file_path' = f.path
                 /\ calls' = <<>>          \* no step invoked yet for this file
                 /\ UNCHANGED <<language, issues, runtime_logs, suggestions>>
                 /\ \E readable \in BOOLEAN :
                      IF readable
                      THEN /\ code' = f.code
                           /\ pc' = "r_detect"
                           /\ UNCHANGED <<results, walk_log>>
                      ELSE /\ results' = Put(results, f.path,
                                             ErrorEntry(<<"[Errno 2] No such file or directory">>))
                           /\ walk_log' = Put(walk_log, f.path, "raised")
                           /\ UNCHANGED <<pc, code>>
    /\ UNCHANGED <<endpoint, env, status, detail, fault, repo_url, workspace, tmpfiles,
                   docker_available, containers>>

\* lines 601-603
R_Detect ==
    /\ pc = "r_detect"
    /\ \E reply \in DetectReplies(env) :
         language' = detect_language_with_llm(code, reply)
    /\ calls' = Append(calls, "detect")
    /\ IF language' = "unknown"
       THEN /\ walk_log' = Put(walk_log, file_path, "unknown") /\ pc' = "r_walk"
       ELSE /\ pc' = "r_static" /\ UNCHANGED walk_log
    /\ UNCHANGED <<endpoint, env, code, issues, runtime_logs, suggestions, status,
                   detail, fault, repo_url, results, files, workspace, file_path,
                   tmpfiles, docker_available, containers>>

\* lines 606-610
R_Static ==
    /\ pc = "r_static"
    /\ LET r == Dispatch(code, language, env.tools)
       IN  /\ issues' = r.issues
           /\ tmpfiles' = tmpfiles \cup r.left
    /\ calls' = IF language = "java" THEN calls ELSE Append(calls, "static")
    /\ pc' = "r_execute"
    /\ UNCHANGED <<endpoint, env, code, language, runtime_logs, suggestions, status,
                   detail, fault, docker_available, containers>>
    /\ UNCHANGED repoVars

\* a plausible slip: no per-file handler, the exception ends the request
R_Execute_unguarded ==
    /\ pc = "r_execute"
    /\ LET r == run_in_docker(code, language, docker_available, env.docker)
       IN  /\ containers' = containers + r.containers
           /\ IF r.raised = NoException
              THEN /\ runtime_logs' = r.value /\ pc' = "r_synthesize"
                   /\ UNCHANGED <<results, walk_log, status, detail, workspace, files>>
              ELSE /\ status' = OuterExcept(<<r.raised>>).status
                   /\ detail' = OuterExcept(<<r.raised>>).detail
                   /\ walk_log' = Put(walk_log, file_path, "raised")
                   /\ workspace' = FALSE
                   /\ pc' = "done"
                   /\ UNCHANGED <<runtime_logs, results, files>>
    /\ calls' = Append(calls, "execute")
    /\ UNCHANGED <<endpoint, env, code, language, issues, suggestions, fault, repo_url,
                   file_path, tmpfiles, docker_available>>

\* lines 611 and 622-625: an exception becomes the error entry of this path
R_Execute ==
    /\ pc = "r_execute"
    /\ LET r == run_in_docker(code, language, docker_available, env.docker)
       IN  /\ containers' = containers + r.containers
           /\ IF r.raised = NoException
              THEN /\ runtime_logs' = r.value /\ pc' = "r_synthesize"
                   /\ UNCHANGED <<results, walk_log>>
              ELSE /\ results' = Put(results, file_path, ErrorEntry(<<r.raised>>))
                   /\ walk_log' = Put(walk_log, file_path, "raised")
                   /\ pc' = "r_walk"
                   /\ UNCHANGED runtime_logs
    /\ calls' = Append(calls, "execute")
    /\ UNCHANGED <<status, detail, workspace, files>>
    /\ UNCHANGED <<endpoint, env, code, language, issues, suggestions, fault, repo_url,
                   file_path, tmpfiles, docker_available>>

\* line 612
R_Synthesize ==
    /\ pc = "r_synthesize"
    /\ suggestions' = ai_fix_agent(code, issues, runtime_logs, language, env.synth)
    /\ calls' = Append(calls, "synthesize")
    /\ pc' = "r_store"
    /\ UNCHANGED <<endpoint, env, code, language, issues, runtime_logs, status, detail,
                   fault, tmpfiles, docker_available, containers>>
    /\ UNCHANGED repoVars

\* lines 614-620
R_Store ==
    /\ pc = "r_store"
    /\ results' = Put(results, file_path,
                      AnalysisResult(language, issues, runtime_logs, suggestions))
    /\ walk_log' = Put(walk_log, file_path, "analysed")
    /\ pc' = "r_walk"
    /\ UNCHANGED <<endpoint, env, status, detail, fault, repo_url, files, workspace,
                   file_path, tmpfiles, docker_available, containers>>
    /\ UNCHANGED submissionVars

\* lines 583 and 627: the walk is over, the with block removes the workspace
R_Finish ==
    /\ pc = "r_walk"
    /\ files = {}
    /\ workspace' = FALSE
    /\ status' = 200
    /\ pc' = "done"
    /\ UNCHANGED <<endpoint, env, detail, fault, repo_url, results, files, file_path,
                   walk_log, tmpfiles, docker_available, containers>>
    /\ UNCHANGED submissionVars

Next ==
    \/ AnalyzeReceive \/ A_Detect \/ A_Static \/ A_Execute \/ A_Synthesize \/ A_Respond
    \/ RepoReceive \/ R_CloneOk \/ R_CloneFail \/ R_NextFile \/ R_Detect \/ R_Static
    \/ R_Execute \/ R_Synthesize \/ R_Store \/ R_Finish

Spec == Init /\ [][Next]_vars

----------------------------------------------------------------------------
(* Claims about the request handlers *)

RepoDone == endpoint = "analyze_repo" /\ pc = "done"

\* C1: /analyze_repo answers a malformed reference and a failing clone with
\* 400 each; 500 is produced only for other unexpected failures.
C1_RepoErrorStatus ==
    RepoDone =>
        /\ fault \in {"malformed_url", "clone_failed"} => status = 400
        /\ status = 500 => fault \notin {"malformed_url", "clone_failed"}

AnalysisSteps == { "static", "execute", "synthesize" }

\* detection has run for the current submission and answered unknown
ResolvedUnknown ==
    language = "unknown" /\ \E i \in 1..Len(calls) : calls[i] = "detect"

\* C6: a submission whose language resolves to unknown goes no further than
\* detection: no static analysis, execution or synthesis is invoked for it;
\* /analyze answers it with 400 and nothing computed, and the repository walk
\* stores no entry for it.
C6_UnknownRejected ==
    /\ ResolvedUnknown =>
          /\ \A i \in 1..Len(calls) : calls[i] \notin AnalysisSteps
          /\ pc \notin {"a_static", "a_execute", "a_synthesize", "a_respond",
                        "r_static", "r_execute", "r_synthesize", "r_store"}
          /\ endpoint = "analyze" =>
                /\ pc = "done" /\ status = 400
                /\ issues = EmptyIssues /\ runtime_logs = <<>> /\ suggestions = <<>>
          /\ endpoint = "analyze_repo" => file_path \notin DOMAIN results
    /\ \A p \in DOMAIN walk_log : walk_log[p] = "unknown" => p \notin DOMAIN results

\* /analyze rejected a non-blank submission whose language resolved to unknown
C6_Witness ==
    /\ endpoint = "analyze" /\ pc = "done" /\ language = "unknown"
    /\ ~IsBlank(code) /\ status = 400 /\ calls = <<"detect">>

Walked(tag) == { p \in DOMAIN walk_log : walk_log[p] = tag }
SupportedWalked == { p \in DOMAIN walk_log : walk_log[p] # "unsupported" }

IsErrorEntry(e) == DOMAIN e = {"error"}
IsAnalysisResult(e) ==
    /\ DOMAIN e = {"language", "issues", "runtime", "suggestions"}
    /\ e.language \in SupportedLanguages

\* the walk ended with one entry per supported file: an error entry for the
\* file that raised, a well-formed result for every other one
OneErrorRestAnalysed ==
    /\ status = 200 /\ files = {}
    /\ DOMAIN results = SupportedWalked
    /\ Cardinality(DOMAIN results) = Cardinality(SupportedWalked)
    /\ \A p \in Walked("raised") : IsErrorEntry(results[p])
    /\ \A p \in SupportedWalked \ Walked("raised") : IsAnalysisResult(results[p])

\* C7 as stated: N files with supported extensions, exactly one of which
\* raises, yield N entries: one error entry and N-1 well-formed results.
C7_OneErrorEntryOfN ==
    (RepoDone /\ fault = NoException /\ Cardinality(Walked("raised")) = 1)
      => OneErrorRestAnalysed

\* C7 amended: the same, for files none of which resolves to unknown (such a
\* file is skipped and gets no entry).
C7_OneErrorEntryOfKnown ==
    (RepoDone /\ fault = NoException /\ Cardinality(Walked("raised")) = 1
        /\ Walked("unknown") = {})
      => OneErrorRestAnalysed

\* two supported files, one raised, the other was analysed
C7_Witness ==
    /\ RepoDone /\ status = 200
    /\ Cardinality(Walked("raised")) = 1 /\ Cardinality(Walked("analysed")) = 1
    /\ Cardinality(DOMAIN results) = 2

\* C8: once a repository request has finished, its clone workspace no longer
\* exists, whether the clone failed or the walk ran to its end.
C8_WorkspaceRemoved == RepoDone => ~workspace

\* a request whose clone failed after the workspace was created
C8_Witness == RepoDone /\ fault = "clone_failed" /\ Len(repo_url) > 0 /\ ~workspace

AnalyzeDone == endpoint = "analyze" /\ pc = "done"

\* C11: /analyze with non-blank code of a supported language always ends in a
\* success with the four fields language, issues, runtime, suggestions,
\* whichever of the backend, the tools and the execution engine are down.
C11_DegradedNeverFails ==
    (AnalyzeDone /\ ~IsBlank(code) /\ language \in SupportedLanguages)
      => /\ status = 200
         /\ IsAnalysisResult(results)

StepRank(step) ==
    CASE step = "detect" -> 1 [] step = "static" -> 2 [] step = "execute" -> 3
      [] OTHER -> 4

Called(step) == \E i \in 1..Len(calls) : calls[i] = step

\* C15: within one submission the steps invoked so far are in the order
\* detect, static, execute, synthesize, none of them twice; a step is invoked
\* only when the ones before it have returned; and the suggestions are those
\* of the synthesizer on exactly the findings and the runtime outcome that
\* this submission's static analysis and execution returned.
C15_PipelineOrder ==
    /\ \A i, j \in 1..Len(calls) : i < j => StepRank(calls[i]) < StepRank(calls[j])
    /\ Called("static") =>
          /\ Called("detect") /\ language \in {"python", "c", "cpp"}
          /\ issues = Dispatch(code, language, env.tools).issues
    /\ Called("execute") =>
          /\ Called("detect") /\ language \in SupportedLanguages
          /\ language # "java" => Called("static")
    /\ Called("synthesize") =>
          /\ Called("execute")
          /\ issues = Dispatch(code, language, env.tools).issues
          /\ run_in_docker(code, language, docker_available, env.docker).raised = NoException
          /\ runtime_logs = run_in_docker(code, language, docker_available, env.docker).value
          /\ suggestions = ai_fix_agent(code, issues, runtime_logs, language, env.synth)

\* a c submission went through all four steps and was answered with the
\* fallback report built from its own conceptual findings
C15_Witness ==
    /\ AnalyzeDone /\ status = 200 /\ language = "c"
    /\ calls = <<"detect", "static", "execute", "synthesize">>
    /\ ~env.synth.ok
    /\ issues["conceptual_errors"] # NoConceptualIssues
    /\ HasLine(suggestions, "CONCEPTUAL ISSUES:")

====
